---- MODULE Spec2Model ----
(***************************************************************************)
(* Review synchronisation and aggregation of the two feedback pages        *)
(* (QuizFlow: src/app/page.tsx, BrainFuel AI: src/unnamed/part_000).       *)
(*                                                                         *)
(* The view is a React component: its state container is the set of        *)
(* useState cells, its operations are the data-loading effect (paged load  *)
(* plus realtime channel), the effect cleanup, and the submit handler.     *)
(* An async function is cut at every await: the part before the await is   *)
(* one action, the remote service answering is one action, and the         *)
(* continuation after the await is one action.                             *)
(***************************************************************************)
EXTENDS Integers, Sequences, FiniteSets, TLC

VARIABLES
    variant,            \* which page: "QuizFlow" or "BrainFuel"
    configured,         \* isSupabaseConfigured && supabase
    viewState,          \* "init" (constructed), "mounted", "unmounted"
    remote,             \* the remote reviews table, newest first
    reviews,            \* useState<Review[]>([])
    isLoadingReviews,   \* useState(false)
    error,              \* useState<string | null>(null)
    distribution,       \* useMemo over reviews
    cancelled,          \* let cancelled = false (effect closure)
    loadPc,             \* position of load(): idle/awaiting/done/failed/cancelled
    from,               \* loop variable of load()
    all,                \* const all: Review[] of load()
    pageResp,           \* answer of the page query in flight
    requests,           \* the ranges requested so far (history)
    channel,            \* "none", "subscribed", "removed"
    rtQueue,            \* INSERT events in flight on the channel
    form,               \* the form fields
    step,               \* QuizFlow: useState(0)
    submitted,          \* QuizFlow: useState(false)
    isSubmitting,       \* useState(false)
    insertReq,          \* the insert request in flight and its answer
    inserts,            \* payloads of the insert requests issued (history)
    confetti,           \* number of burstConfetti() effects shown (history)
    roleFilter,         \* useState("all")
    starFilter,         \* BrainFuel: useState(0)
    visibleCount,       \* useState(12)
    maxVisible,         \* the largest visibleCount so far (history)
    remoteChanged,      \* a row was inserted while the load was running (history)
    mergeLog            \* merges applied by realtime / submit (history)

vars == <<variant, configured, viewState, remote, reviews, isLoadingReviews,
          error, distribution, cancelled, loadPc, from, all, pageResp,
          requests, channel, rtQueue, form, step, submitted, isSubmitting,
          insertReq, inserts, confetti, roleFilter, starFilter, visibleCount,
          maxVisible, remoteChanged, mergeLog>>

loadVars == <<cancelled, loadPc, from, all, pageResp, requests>>
formVars == <<form, step, submitted>>
submitVars == <<isSubmitting, insertReq, inserts>>
viewVars == <<roleFilter, starFilter, visibleCount, maxVisible>>

(***************************************************************************)
(* Bounds                                                                  *)
(***************************************************************************)
\* page size of the model (the pages use 500)
pageSize == 2
\* largest remote table at construction
MaxSeed == 2
\* largest remote table
MaxRemote == 3
\* longest collection given to the aggregator on its own
MaxAggLen == 4
\* most insert requests one view issues
MaxSubmits == 1
\* most insert requests one view issues in the form runs
MaxFormSubmits == 2
\* largest remote table of the filter and reveal runs
MaxViewRows == 30
\* largest remote table of the ordering runs
MaxOrderRemote == 4

NoError == "null"
None == "none"

Variants == {"QuizFlow", "BrainFuel"}

Max(a, b) == IF a > b THEN a ELSE b
Min(a, b) == IF a < b THEN a ELSE b

(***************************************************************************)
(* Data                                                                    *)
(***************************************************************************)
\* role: "student" | "faculty" (QuizFlow), "student" | "teacher" (BrainFuel)
Roles(v) == IF v = "QuizFlow" THEN {"student", "faculty"} ELSE {"student", "teacher"}

\* the rows other clients have stored: ratings are not clamped at the source
SeedRating(i) == <<7, 4, 0, 5, 3, 6>>[((i - 1) % 6) + 1]
SeedRole(i, v) == IF i % 2 = 1 THEN "student"
                  ELSE IF v = "QuizFlow" THEN "faculty" ELSE "teacher"

\* a row of the reviews table (Review), reduced to the fields the view reads
Review(i, t, ro, ra) == [id |-> i, created_at |-> t, role |-> ro, rating |-> ra]

\* the table at construction: n rows, newest first, identifiers unrelated to age
SeedRemote(n, v) ==
    [i \in 1..n |-> Review(i, n + 1 - i, SeedRole(i, v), SeedRating(i))]

Ids(s) == {s[i].id : i \in 1..Len(s)}

\* some, looking at the newest element only
someHead(prev, next) == prev # <<>> /\ prev[1].id = next.id

\* prev.some((r) => r.id === next.id)
some(prev, next) == \E i \in 1..Len(prev) : prev[i].id = next.id

\* .order("created_at", { ascending: false }).range(lo, hi), zero-based, inclusive
range(tbl, lo, hi) == SubSeq(tbl, lo + 1, Min(hi + 1, Len(tbl)))

\* the service stores a row: server-assigned identifier and timestamp, newest first
NewRow(tbl, ro, ra) == Review(Len(tbl) + 1, Len(tbl) + 1, ro, ra)

(***************************************************************************)
(* Aggregator                                                              *)
(***************************************************************************)
\* the rating taken as it is stored
noClamp(n) == n

\* Math.max(1, Math.min(5, n))
clampRating(n) == Max(1, Min(5, n))

RECURSIVE reduceSum(_)
\* reviews.reduce((sum, r) => sum + clampRating(r.rating), 0)
reduceSum(rs) ==
    IF rs = <<>> THEN 0
    ELSE reduceSum(SubSeq(rs, 1, Len(rs) - 1)) + clampRating(rs[Len(rs)].rating)

\* Math.floor in place of Math.round
MathTrunc(num, den) == num \div den

\* Math.round(x) for x = num / den >= 0: the nearest integer, halves upwards
MathRound(num, den) == (2 * num + den) \div (2 * den)

\* for (const r of reviews) counts[clampRating(r.rating)]++
histogram(rs) ==
    [k \in 1..5 |-> Cardinality({i \in 1..Len(rs) : clampRating(rs[i].rating) = k})]

\* the average, kept in tenths: Math.round((sum / total) * 10) / 10
average(rs) ==
    IF Len(rs) = 0 THEN 0 ELSE MathRound(reduceSum(rs) * 10, Len(rs))

\* const distribution = useMemo(() => ..., [reviews]); avg is in tenths
Distribution(rs) == [counts |-> histogram(rs), total |-> Len(rs), avg |-> average(rs)]

(***************************************************************************)
(* Form                                                                    *)
(***************************************************************************)
\* a string is the sequence of its characters; " " is white space
RECURSIVE trimStart(_)
trimStart(s) == IF s # <<>> /\ s[1] = " " THEN trimStart(Tail(s)) ELSE s

RECURSIVE trimEnd(_)
trimEnd(s) ==
    IF s # <<>> /\ s[Len(s)] = " " THEN trimEnd(SubSeq(s, 1, Len(s) - 1)) ELSE s

\* String.prototype.trim
trim(s) == trimEnd(trimStart(s))

\* a nullable value is the set of its values: null is the empty set
Null == {}
Some(x) == {x}

\* s.trim() without the || null
orEmpty(s) == Some(trim(s))

\* s.trim() || null
orNull(s) == IF trim(s) = <<>> THEN Null ELSE Some(trim(s))

\* a form that starts with valid entries in its required fields
initialFormValid(v) ==
    IF v = "QuizFlow"
    THEN [name |-> <<"A", "s">>, role |-> "student", rating |-> 5,
          experience |-> <<"o", "k", "!">>, reliabilityRating |-> 3,
          wouldRecommend |-> {TRUE},
          securityIssues |-> <<>>, bugsGlitches |-> <<>>, databaseIssues |-> <<>>,
          featureRequests |-> <<>>, uiUxFeedback |-> <<>>, otherFeedback |-> <<>>]
    ELSE [name |-> <<"A", "s">>, role |-> "student", rating |-> 5,
          feedback |-> <<"o", "k", "!">>]

\* QuizFlow: const initialForm; BrainFuel: the useState defaults of name, role, rating, feedback
initialForm(v) ==
    IF v = "QuizFlow"
    THEN [name |-> <<>>, role |-> "student", rating |-> 0, experience |-> <<>>,
          reliabilityRating |-> 0, wouldRecommend |-> Null,
          securityIssues |-> <<>>, bugsGlitches |-> <<>>, databaseIssues |-> <<>>,
          featureRequests |-> <<>>, uiUxFeedback |-> <<>>, otherFeedback |-> <<>>]
    ELSE [name |-> <<>>, role |-> "student", rating |-> 5, feedback |-> <<>>]

\* STEPS.length
StepsLength == 4

\* useState(12) of visibleCount, and setVisibleCount(12)
InitialVisible == 12

\* setVisibleCount((n) => n + 12)
VisibleIncrement == 12

\* a form the user has filled in and brought to the submit control
FilledForm(v, ra) ==
    IF v = "QuizFlow"
    THEN [name |-> <<" ", "A", "s">>, role |-> "faculty", rating |-> ra,
          experience |-> <<"o", "k", " ", "!">>, reliabilityRating |-> 3,
          wouldRecommend |-> Some(TRUE),
          securityIssues |-> <<>>, bugsGlitches |-> <<" ">>, databaseIssues |-> <<>>,
          featureRequests |-> <<"x", " ">>, uiUxFeedback |-> <<>>, otherFeedback |-> <<>>]
    ELSE [name |-> <<" ", "A", "s">>, role |-> "teacher", rating |-> ra,
          feedback |-> <<"G", "o", "o", "d", " ">>]

\* the ratings the filled-in forms of the synchronisation runs carry
FilledRatings == {4, 5}

(***************************************************************************)
(* Messages in flight                                                      *)
(***************************************************************************)
NoResp == [kind |-> "none", data |-> <<>>, message |-> NoError]
DataResp(rows) == [kind |-> "data", data |-> rows, message |-> NoError]
\* { data: null, error: { message } }
ErrorResp(m) == [kind |-> "error", data |-> <<>>, message |-> m]
\* the awaited promise rejects
ThrowResp(m) == [kind |-> "throw", data |-> <<>>, message |-> m]

NoInsert == [kind |-> "none", payload |-> Null, data |-> Null, message |-> NoError]

QueryOutcomes == {"data", "error", "throw"}

(***************************************************************************)
(* Construction                                                            *)
(***************************************************************************)
\* the useState initial values of Home, before any effect has run
InitView ==
    /\ viewState = "init"
    /\ reviews = <<>>
    /\ isLoadingReviews = FALSE
    /\ error = NoError
    /\ distribution = Distribution(<<>>)
    /\ cancelled = FALSE
    /\ loadPc = "idle"
    /\ from = 0
    /\ all = <<>>
    /\ pageResp = NoResp
    /\ requests = <<>>
    /\ channel = "none"
    /\ rtQueue = <<>>
    /\ form = initialForm(variant)
    /\ step = 0
    /\ submitted = FALSE
    /\ isSubmitting = FALSE
    /\ insertReq = NoInsert
    /\ inserts = <<>>
    /\ confetti = 0
    /\ roleFilter = "all"
    /\ starFilter = 0
    /\ visibleCount = InitialVisible
    /\ maxVisible = InitialVisible
    /\ remoteChanged = FALSE
    /\ mergeLog = {}

Init ==
    /\ variant \in Variants
    /\ configured \in BOOLEAN
    /\ remote \in {SeedRemote(n, variant) : n \in 0..MaxSeed}
    /\ InitView

(***************************************************************************)
(* Data loading effect: paged load and realtime channel                    *)
(***************************************************************************)
\* merge without the identifier test
mergeNoDedup(prev, next) == <<next>> \o prev

\* merge that adds the new record at the end
mergeAppend(prev, next) == IF some(prev, next) THEN prev ELSE Append(prev, next)

\* prev.some((r) => r.id === next.id) ? prev : [next, ...prev]
merge(prev, next) == IF some(prev, next) THEN prev ELSE <<next>> \o prev

\* the loop step one too far
nextFromSkip(f) == f + pageSize + 1

\* for (...; from += pageSize)
nextFrom(f) == f + pageSize

\* break on an empty page only
lastPageEmpty(batch) == Len(batch) = 0

\* if (batch.length < pageSize) break
lastPage(batch) == Len(batch) < pageSize

\* the cancellation flag is not looked at
stoppedNever(c) == FALSE

\* if (cancelled) return, after the await and in the catch block
stopped(c) == c

\* the error paths leave the loading flag set
loadingStuck == TRUE

\* setIsLoadingReviews(false) of the error paths
loadingAfterFailure == FALSE

\* the pages fetched so far are stored after every page
storedPartial(prev, acc) == acc

\* all.push(...batch): inside the loop the pages go to the local array only
storedWhilePaging(prev, acc) == prev

\* the range of the request issued for offset f
rangeOf(f) == <<f, f + pageSize - 1>>

\* the credentials test passes whatever the configuration
hasClientAlways == TRUE

\* isSupabaseConfigured && supabase
hasClient == configured

\* useEffect(() => { ... }, []): runs once after the first render
Mount ==
    /\ viewState = "init"
    /\ viewState' = "mounted"
    /\ IF ~hasClient
       THEN \* if (!isSupabaseConfigured || !supabase) return
            UNCHANGED <<error, isLoadingReviews, loadVars, channel>>
       ELSE \* load() up to its first await, then .channel(...).on(...).subscribe()
            /\ error' = NoError
            /\ isLoadingReviews' = TRUE
            /\ all' = <<>>
            /\ from' = 0
            /\ requests' = Append(requests, rangeOf(0))
            /\ loadPc' = "awaiting"
            /\ channel' = "subscribed"
            /\ UNCHANGED <<cancelled, pageResp>>
    /\ UNCHANGED <<viewVars, confetti, variant, configured, remote, reviews, distribution, rtQueue,
                   formVars, submitVars, remoteChanged, mergeLog>>

\* the service answers the page query in flight
ServerAnswer(outcome) ==
    /\ loadPc = "awaiting"
    /\ pageResp.kind = "none"
    /\ pageResp' = CASE outcome = "data" ->
                          DataResp(range(remote, requests[Len(requests)][1],
                                         requests[Len(requests)][2]))
                     [] outcome = "error" -> ErrorResp("query failed")
                     [] outcome = "throw" -> ThrowResp("network down")
    /\ UNCHANGED <<viewVars, confetti, variant, configured, viewState, remote, reviews,
                   isLoadingReviews, error, distribution, cancelled, loadPc,
                   from, all, requests, channel, rtQueue, formVars, submitVars,
                   remoteChanged, mergeLog>>

\* load() from the resolution of the await to the next await or to its return
LoadResolve ==
    /\ loadPc = "awaiting"
    /\ pageResp.kind # "none"
    /\ pageResp' = NoResp
    /\ IF stopped(cancelled)
       THEN /\ loadPc' = "cancelled"
            /\ UNCHANGED <<reviews, distribution, isLoadingReviews, error, from,
                           all, requests>>
       ELSE IF pageResp.kind \in {"error", "throw"}
       THEN \* setError(error.message); setIsLoadingReviews(false); return
            /\ error' = pageResp.message
            /\ isLoadingReviews' = loadingAfterFailure
            /\ loadPc' = "failed"
            /\ UNCHANGED <<reviews, distribution, from, all, requests>>
       ELSE LET batch == pageResp.data
                acc == all \o batch
            IN  /\ all' = acc
                /\ IF lastPage(batch)
                   THEN \* setReviews(all); setIsLoadingReviews(false)
                        /\ reviews' = acc
                        /\ distribution' = Distribution(acc)
                        /\ isLoadingReviews' = FALSE
                        /\ loadPc' = "done"
                        /\ UNCHANGED <<from, requests>>
                   ELSE \* next iteration: the next range is requested
                        /\ from' = nextFrom(from)
                        /\ requests' = Append(requests, rangeOf(nextFrom(from)))
                        /\ loadPc' = "awaiting"
                        /\ reviews' = storedWhilePaging(reviews, acc)
                        /\ distribution' = Distribution(storedWhilePaging(reviews, acc))
                        /\ UNCHANGED isLoadingReviews
                /\ UNCHANGED error
    /\ UNCHANGED <<viewVars, confetti, variant, configured, viewState, remote, cancelled, channel,
                   rtQueue, formVars, submitVars, remoteChanged, mergeLog>>

\* the (payload) => { ... } handler of the INSERT subscription
RealtimeInsert ==
    /\ channel = "subscribed"
    /\ rtQueue # <<>>
    /\ LET next == Head(rtQueue)
       IN  /\ reviews' = merge(reviews, next)
           /\ distribution' = Distribution(merge(reviews, next))
           /\ mergeLog' = mergeLog \cup {<<"realtime", next.id, loadPc = "awaiting">>}
    /\ rtQueue' = Tail(rtQueue)
    /\ UNCHANGED <<viewVars, confetti, variant, configured, viewState, remote, isLoadingReviews,
                   error, loadVars, channel, formVars, submitVars, remoteChanged>>

\* return () => { cancelled = true; if (channel) void sb.removeChannel(channel); }
Unmount ==
    /\ viewState = "mounted"
    /\ viewState' = "unmounted"
    /\ IF configured
       THEN /\ cancelled' = TRUE
            /\ channel' = "removed"
            /\ rtQueue' = <<>>
       ELSE UNCHANGED <<cancelled, channel, rtQueue>>
    /\ UNCHANGED <<viewVars, confetti, variant, configured, remote, reviews, isLoadingReviews, error,
                   distribution, loadPc, from, all, pageResp, requests, formVars,
                   submitVars, remoteChanged, mergeLog>>

(***************************************************************************)
(* The remote service                                                      *)
(***************************************************************************)
\* the table after the service has stored row, and the INSERT event it pushes
Stored(row) ==
    /\ remote' = <<row>> \o remote
    /\ rtQueue' = IF channel = "subscribed" THEN Append(rtQueue, row) ELSE rtQueue
    /\ remoteChanged' = (remoteChanged \/ loadPc = "awaiting")

\* another client inserts a review; the table holds at most cap rows
OtherInsertUpTo(cap) ==
    /\ Len(remote) < cap
    /\ Stored(NewRow(remote, SeedRole(Len(remote) + 1, variant),
                     SeedRating(Len(remote) + 1)))
    /\ UNCHANGED <<viewVars, confetti, variant, configured, viewState, reviews, isLoadingReviews,
                   error, distribution, loadVars, channel, formVars, submitVars,
                   mergeLog>>

\* another client inserts a review
OtherInsert == OtherInsertUpTo(MaxRemote)

(***************************************************************************)
(* Submit                                                                  *)
(***************************************************************************)
\* the user fills in the form and reaches the submit control (inputs are
\* inert while isSubmitting; QuizFlow shows the form only while !submitted)
FillForm(ra) ==
    /\ viewState = "mounted"
    /\ ~isSubmitting
    /\ ~submitted
    /\ form' = FilledForm(variant, ra)
    /\ step' = IF variant = "QuizFlow" THEN StepsLength - 1 ELSE step
    /\ UNCHANGED <<viewVars, confetti, variant, configured, viewState, remote, reviews,
                   isLoadingReviews, error, distribution, loadVars, channel,
                   rtQueue, submitted, submitVars, remoteChanged, mergeLog>>

\* const payload: ReviewInsert = { ... }
payloadOf(v, f) ==
    IF v = "QuizFlow"
    THEN [name |-> trim(f.name), role |-> f.role, rating |-> clampRating(f.rating),
          experience |-> trim(f.experience),
          reliability_rating |-> clampRating(f.reliabilityRating),
          would_recommend |-> IF f.wouldRecommend = Null THEN TRUE
                              ELSE CHOOSE b \in f.wouldRecommend : TRUE,
          security_issues |-> orNull(f.securityIssues),
          bugs_glitches |-> orNull(f.bugsGlitches),
          database_issues |-> orNull(f.databaseIssues),
          feature_requests |-> orNull(f.featureRequests),
          ui_ux_feedback |-> orNull(f.uiUxFeedback),
          other_feedback |-> orNull(f.otherFeedback)]
    ELSE [name |-> trim(f.name), role |-> f.role, rating |-> clampRating(f.rating),
          feedback |-> trim(f.feedback)]

\* BrainFuel onSubmit: the two length checks before the payload is built
blocked(v, f) ==
    /\ v = "BrainFuel"
    /\ (Len(trim(f.name)) < 2 \/ Len(trim(f.feedback)) < 3)

\* the submit control without the disabled attribute
submitOfferedAlways ==
    /\ viewState = "mounted"
    /\ variant = "QuizFlow" => (step = StepsLength - 1 /\ ~submitted)

\* the submit control: QuizFlow renders it at the last step while !submitted,
\* both pages disable it while isSubmitting
submitOffered ==
    /\ viewState = "mounted"
    /\ ~isSubmitting
    /\ variant = "QuizFlow" => (step = StepsLength - 1 /\ ~submitted)

\* onSubmit up to its await; at most cap insert requests are issued in a run
SubmitStartUpTo(cap) ==
    /\ submitOffered
    /\ error' = IF variant = "BrainFuel" THEN NoError ELSE error
    /\ IF ~hasClient \/ blocked(variant, form)
       THEN UNCHANGED submitVars
       ELSE /\ Len(inserts) < cap
            /\ isSubmitting' = TRUE
            /\ insertReq' = [kind |-> "sent", payload |-> Some(payloadOf(variant, form)),
                             data |-> Null, message |-> NoError]
            /\ inserts' = Append(inserts, payloadOf(variant, form))
    /\ UNCHANGED <<viewVars, confetti, variant, configured, viewState, remote, reviews,
                   isLoadingReviews, distribution, loadVars, channel, rtQueue,
                   formVars, remoteChanged, mergeLog>>

\* onSubmit up to its await
SubmitStart == SubmitStartUpTo(MaxSubmits)

\* the service executes the insert request and answers with the stored row
ServerInsert ==
    /\ insertReq.kind = "sent"
    /\ Len(remote) < MaxRemote
    /\ LET p == CHOOSE x \in insertReq.payload : TRUE
           row == NewRow(remote, p.role, p.rating)
       IN  /\ Stored(row)
           /\ insertReq' = [insertReq EXCEPT !.kind = "data", !.data = Some(row)]
    /\ UNCHANGED <<viewVars, confetti, variant, configured, viewState, reviews, isLoadingReviews,
                   error, distribution, loadVars, channel, formVars,
                   isSubmitting, inserts, mergeLog>>

\* the service rejects the insert request
ServerReject ==
    /\ insertReq.kind = "sent"
    /\ insertReq' = [insertReq EXCEPT !.kind = "error", !.message = "insert failed"]
    /\ UNCHANGED <<viewVars, confetti, variant, configured, viewState, remote, reviews,
                   isLoadingReviews, error, distribution, loadVars, channel,
                   rtQueue, formVars, isSubmitting, inserts, remoteChanged,
                   mergeLog>>

\* QuizFlow: burstConfetti(); BrainFuel: if (sr === 5) burstConfetti()
celebrates(v, sr) == v = "QuizFlow" \/ sr = 5

\* burstConfetti: if (!layer || !btn) return; the refs are set while the view
\* is mounted and the submit control is rendered
refsAttached == viewState = "mounted"

\* the failure path clears the form
formClearedAfterFailure(v, f) == initialForm(v)

\* if (ie) { toast.error("Submission failed", ...); return; }: no setter runs
formAfterFailure(v, f) == f

\* the flag is left set after the await
submittingStuck == TRUE

\* setIsSubmitting(false), the statement after the await
submittingAfterAwait == FALSE

\* onSubmit from the resolution of its await to its return
SubmitResolve ==
    /\ insertReq.kind \in {"data", "error"}
    /\ insertReq' = NoInsert
    /\ isSubmitting' = submittingAfterAwait
    /\ IF insertReq.kind = "error"
       THEN \* toast.error("Submission failed", ...); return
            /\ form' = formAfterFailure(variant, form)
            /\ UNCHANGED <<reviews, distribution, mergeLog, step, submitted>>
       ELSE LET ins == CHOOSE x \in insertReq.data : TRUE
            IN  /\ reviews' = merge(reviews, ins)
                /\ distribution' = Distribution(merge(reviews, ins))
                /\ mergeLog' = mergeLog \cup {<<"submit", ins.id, loadPc = "awaiting">>}
                /\ IF variant = "QuizFlow"
                   THEN \* setSubmitted(true)
                        /\ submitted' = TRUE
                        /\ UNCHANGED <<form, step>>
                   ELSE \* setName(""); setRole("student"); setRating(5); setFeedback("")
                        /\ form' = initialForm(variant)
                        /\ UNCHANGED <<step, submitted>>
    /\ confetti' = IF /\ insertReq.kind = "data"
                       /\ celebrates(variant, (CHOOSE x \in insertReq.payload : TRUE).rating)
                       /\ refsAttached
                    THEN confetti + 1 ELSE confetti
    /\ UNCHANGED <<viewVars, variant, configured, viewState, remote,
                   isLoadingReviews, error, loadVars, channel, rtQueue, inserts,
                   remoteChanged>>

(***************************************************************************)
(* Specification of the synchronisation runs                               *)
(***************************************************************************)
Next ==
    \/ Mount
    \/ \E outcome \in QueryOutcomes : ServerAnswer(outcome)
    \/ LoadResolve
    \/ RealtimeInsert
    \/ Unmount
    \/ OtherInsert
    \/ \E ra \in FilledRatings : FillForm(ra)
    \/ SubmitStart
    \/ ServerInsert
    \/ ServerReject
    \/ SubmitResolve

Spec == Init /\ [][Next]_vars

(***************************************************************************)
(* Specification of the aggregation runs: the view loads a table that      *)
(* holds arbitrary ratings and derives the statistics from it              *)
(***************************************************************************)
\* the ratings found in the stored rows, in and out of 1..5
RatingInputs == {0, 3, 4, 7}

AggTable(f) == [i \in DOMAIN f |-> Review(i, Len(f) + 1 - i, "student", f[i])]

AggTables == UNION {{AggTable(f) : f \in [1..n -> RatingInputs]} : n \in 0..MaxAggLen}

InitAgg ==
    /\ variant \in Variants
    /\ configured = TRUE
    /\ remote \in AggTables
    /\ InitView

NextAgg ==
    \/ Mount
    \/ ServerAnswer("data")
    \/ LoadResolve

SpecAgg == InitAgg /\ [][NextAgg]_vars

(***************************************************************************)
(* View filter and paginator                                               *)
(***************************************************************************)
\* the filter without the star test
filteredByRole(v, rs, rf, sf) ==
    LET keep(r) == rf = "all" \/ r.role = rf
    IN  SelectSeq(rs, keep)

\* const filteredReviews = useMemo(() => reviews.filter(...), [reviews, ...]);
\* the star test exists in BrainFuel only
filteredReviews(v, rs, rf, sf) ==
    LET keep(r) ==
            /\ rf = "all" \/ r.role = rf
            /\ v = "BrainFuel" => (sf = 0 \/ clampRating(r.rating) = sf)
    IN  SelectSeq(rs, keep)

\* Array.prototype.slice(0, n)
slice(s, n) == SubSeq(s, 1, Min(n, Len(s)))

\* filteredReviews.slice(0, visibleCount).map(...): the cards shown
displayed == slice(filteredReviews(variant, reviews, roleFilter, starFilter), visibleCount)

\* `Showing ${Math.min(visibleCount, filteredReviews.length)} of ${filteredReviews.length}`
showing ==
    <<Min(visibleCount, Len(filteredReviews(variant, reviews, roleFilter, starFilter))),
      Len(filteredReviews(variant, reviews, roleFilter, starFilter))>>

\* the load-more button rendered whatever the counts
loadMoreAlways == TRUE

\* {filteredReviews.length > visibleCount && (<button ...>)}
loadMoreOffered ==
    Len(filteredReviews(variant, reviews, roleFilter, starFilter)) > visibleCount

\* a dependency list that leaves out starFilter
depsChangedRoleOnly(rf, sf, rf2, sf2) == rf2 # rf

\* useEffect(..., [roleFilter]) / useEffect(..., [roleFilter, starFilter]):
\* the effect runs when a dependency differs from the last render
depsChanged(rf, sf, rf2, sf2) == rf2 # rf \/ sf2 # sf

\* the source array reversed in place
sourceReversed(rs) == [i \in 1..Len(rs) |-> rs[Len(rs) + 1 - i]]

\* reviews.filter(...) returns a new array and leaves reviews as it is
sourceAfterFilter(rs) == rs

\* the filter state after setRoleFilter / setStarFilter and the render and
\* effect that follow: useEffect(() => { setVisibleCount(12); }, [...])
Refilter(rf2, sf2) ==
    /\ roleFilter' = rf2
    /\ starFilter' = sf2
    /\ visibleCount' = IF depsChanged(roleFilter, starFilter, rf2, sf2)
                       THEN InitialVisible ELSE visibleCount
    /\ reviews' = sourceAfterFilter(reviews)
    /\ distribution' = Distribution(sourceAfterFilter(reviews))
    /\ UNCHANGED <<maxVisible, confetti, variant, configured, viewState, remote,
                   isLoadingReviews, error, loadVars, channel, rtQueue, formVars,
                   submitVars, remoteChanged, mergeLog>>

\* onClick={() => setRoleFilter(key)}
SetRoleFilter(key) ==
    /\ viewState = "mounted"
    /\ key \in {"all"} \cup Roles(variant)
    /\ Refilter(key, starFilter)

\* BrainFuel: onClick={() => setStarFilter(s)}
SetStarFilter(st) ==
    /\ viewState = "mounted"
    /\ variant = "BrainFuel"
    /\ st \in 0..5
    /\ Refilter(roleFilter, st)

\* onClick={() => setVisibleCount((n) => n + 12)}
LoadMore ==
    /\ viewState = "mounted"
    /\ loadMoreOffered
    /\ visibleCount' = visibleCount + VisibleIncrement
    /\ maxVisible' = Max(maxVisible, visibleCount + VisibleIncrement)
    /\ UNCHANGED <<roleFilter, starFilter, confetti, variant, configured,
                   viewState, remote, reviews, isLoadingReviews, error,
                   distribution, loadVars, channel, rtQueue, formVars,
                   submitVars, remoteChanged, mergeLog>>

(***************************************************************************)
(* Specification of the filter and reveal runs: the view loads a table and *)
(* the user filters and reveals                                            *)
(***************************************************************************)
\* sizes of the tables: empty, one more than the first reveal, several reveals
ViewSizes == {0, InitialVisible + 1, MaxViewRows}

InitViewRuns ==
    /\ variant \in Variants
    /\ configured = TRUE
    /\ remote \in {SeedRemote(n, variant) : n \in ViewSizes}
    /\ InitView

NextView ==
    \/ Mount
    \/ ServerAnswer("data")
    \/ LoadResolve
    \/ \E key \in {"all", "student", "faculty", "teacher"} : SetRoleFilter(key)
    \/ \E st \in 0..5 : SetStarFilter(st)
    \/ LoadMore

SpecView == InitViewRuns /\ [][NextView]_vars

(***************************************************************************)
(* Form editing and step navigation                                        *)
(***************************************************************************)
\* QuizFlow: the step whose renderer (renderStep0..renderStep3) shows the field
fieldStep(key) ==
    CASE key \in {"name", "role", "rating"} -> 0
      [] key \in {"experience", "reliabilityRating", "wouldRecommend"} -> 1
      [] key \in {"securityIssues", "bugsGlitches", "databaseIssues"} -> 2
      [] key \in {"featureRequests", "uiUxFeedback", "otherFeedback"} -> 3

\* every step renderer is on the page at every step
editableAnyStep(key) ==
    /\ viewState = "mounted"
    /\ ~isSubmitting
    /\ key \in DOMAIN form
    /\ variant = "QuizFlow" => ~submitted

\* the input of a field is rendered and not disabled
editable(key) ==
    /\ viewState = "mounted"
    /\ ~isSubmitting
    /\ key \in DOMAIN form
    /\ variant = "QuizFlow" => (~submitted /\ fieldStep(key) = step)

\* what the user types and clicks in the form runs
FormInputs ==
    {<<"name", <<" ", "A", " ">>>>, <<"name", <<" ", "A", "s">>>>,
     <<"role", "faculty">>, <<"role", "teacher">>,
     <<"rating", 4>>, <<"rating", 5>>,
     <<"experience", <<"o", "k", " ">>>>, <<"experience", <<"o", "k", " ", "!">>>>,
     <<"reliabilityRating", 3>>,
     <<"wouldRecommend", Some(FALSE)>>,
     <<"bugsGlitches", <<" ">>>>,
     <<"featureRequests", <<"x", " ">>>>,
     <<"feedback", <<"o", "k", " ">>>>, <<"feedback", <<"G", "o", "o", "d", " ">>>>}

\* QuizFlow: updateForm(key, val); BrainFuel: setName, setRole, setRating, setFeedback
updateForm(key, val) ==
    /\ editable(key)
    /\ key = "role" => val \in Roles(variant)
    /\ form' = [form EXCEPT ![key] = val]
    /\ UNCHANGED <<viewVars, confetti, variant, configured, viewState, remote,
                   reviews, isLoadingReviews, error, distribution, loadVars,
                   channel, rtQueue, step, submitted, submitVars, remoteChanged,
                   mergeLog>>

\* validateStep without the name test
validStepNoName(f, st) ==
    CASE st = 0 -> f.rating >= 1
      [] st = 1 -> /\ Len(trim(f.experience)) >= 3
                   /\ f.reliabilityRating >= 1
                   /\ f.wouldRecommend # Null
      [] OTHER -> TRUE

\* validateStep(s) returns no message
validStep(f, st) ==
    CASE st = 0 -> Len(trim(f.name)) >= 2 /\ f.rating >= 1
      [] st = 1 -> /\ Len(trim(f.experience)) >= 3
                   /\ f.reliabilityRating >= 1
                   /\ f.wouldRecommend # Null
      [] OTHER -> TRUE

\* the navigation buttons of the QuizFlow form card
navigable ==
    /\ variant = "QuizFlow"
    /\ viewState = "mounted"
    /\ ~submitted
    /\ ~isSubmitting

Navigate(st) ==
    /\ step' = st
    /\ UNCHANGED <<viewVars, confetti, variant, configured, viewState, remote,
                   reviews, isLoadingReviews, error, distribution, loadVars,
                   channel, rtQueue, form, submitted, submitVars, remoteChanged,
                   mergeLog>>

\* nextStep, offered while step < STEPS.length - 1
nextStep ==
    /\ navigable
    /\ step < StepsLength - 1
    /\ Navigate(IF validStep(form, step) THEN Min(step + 1, StepsLength - 1) ELSE step)

\* prevStep, offered while step > 0
prevStep ==
    /\ navigable
    /\ step > 0
    /\ Navigate(Max(step - 1, 0))

\* the skip button rendered at every step
skipOfferedAnywhere == navigable

\* {step >= 2 && step < STEPS.length - 1 && (<button onClick={skipStep} ...>)}
skipOffered ==
    /\ navigable
    /\ step >= 2
    /\ step < StepsLength - 1

\* skipStep
skipStep ==
    /\ skipOffered
    /\ Navigate(Min(step + 1, StepsLength - 1))

\* resetForm, the button of the success card (QuizFlow, submitted)
resetForm ==
    /\ variant = "QuizFlow"
    /\ viewState = "mounted"
    /\ submitted
    /\ form' = initialForm(variant)
    /\ step' = 0
    /\ submitted' = FALSE
    /\ UNCHANGED <<viewVars, confetti, variant, configured, viewState, remote,
                   reviews, isLoadingReviews, error, distribution, loadVars,
                   channel, rtQueue, submitVars, remoteChanged, mergeLog>>

(***************************************************************************)
(* Specification of the form runs: the table is empty and the page query   *)
(* stays unanswered while the user edits, navigates and submits            *)
(***************************************************************************)
InitForm ==
    /\ variant \in Variants
    /\ configured \in BOOLEAN
    /\ remote = <<>>
    /\ InitView

NextForm ==
    \/ Mount
    \/ \E in \in FormInputs : updateForm(in[1], in[2])
    \/ nextStep
    \/ prevStep
    \/ skipStep
    \/ resetForm
    \/ SubmitStartUpTo(MaxFormSubmits)
    \/ ServerInsert
    \/ ServerReject
    \/ SubmitResolve
    \/ Unmount

SpecForm == InitForm /\ [][NextForm]_vars

(***************************************************************************)
(* Specification of the ordering runs: other clients keep inserting while  *)
(* the view loads, receives realtime events and submits; every query and   *)
(* every insert succeeds and the view stays mounted                        *)
(***************************************************************************)
InitOrder ==
    /\ variant \in Variants
    /\ configured = TRUE
    /\ remote \in {SeedRemote(n, variant) : n \in 0..MaxSeed}
    /\ InitView

NextOrder ==
    \/ Mount
    \/ ServerAnswer("data")
    \/ LoadResolve
    \/ OtherInsertUpTo(MaxOrderRemote)
    \/ RealtimeInsert
    \/ FillForm(5)
    \/ SubmitStart
    \/ ServerInsert
    \/ SubmitResolve

SpecOrder == InitOrder /\ [][NextOrder]_vars

(***************************************************************************)
(* Specification of the load runs with progress: the effect runs after the *)
(* first render, every page request is answered, and the continuation of   *)
(* load() runs once its await has resolved (the event loop is never        *)
(* blocked)                                                                *)
(***************************************************************************)
NextLoad ==
    \/ Mount
    \/ \E outcome \in QueryOutcomes : ServerAnswer(outcome)
    \/ LoadResolve
    \/ RealtimeInsert
    \/ Unmount
    \/ OtherInsert

SpecLoad ==
    /\ Init
    /\ [][NextLoad]_vars
    /\ WF_vars(Mount)
    /\ WF_vars(\E outcome \in QueryOutcomes : ServerAnswer(outcome))
    /\ WF_vars(LoadResolve)

(***************************************************************************)
(* Properties                                                              *)
(***************************************************************************)
UniqueIds(s) == \A i, j \in 1..Len(s) : s[i].id = s[j].id => i = j

Occurrences(s, id) == Cardinality({i \in 1..Len(s) : s[i].id = id})

\* the step is a merge of record d by the realtime handler or by onSubmit
MergeStep(d) ==
    \/ RealtimeInsert /\ d = Head(rtQueue)
    \/ SubmitResolve /\ insertReq.kind = "data" /\ d \in insertReq.data

\* the records a merge step of the current state can carry
Mergeable ==
    (IF rtQueue # <<>> THEN {Head(rtQueue)} ELSE {}) \cup insertReq.data

C2_MergedDuringLoadKept ==
    loadPc = "done" =>
        /\ \A m \in mergeLog : m[3] => m[2] \in Ids(reviews)
        /\ Ids(all) \subseteq Ids(reviews)

\* C3: a merge of record r1 by onSubmit or by the realtime handler leaves r1 in
\* the collection, leaves the collection unchanged when r1 is already there
\* (whichever of the two merged it first), and turns the empty collection into
\* the collection of length 1 holding r1.
C3_EchoIdempotent ==
    [][\A d \in Mergeable :
          MergeStep(d) =>
              /\ d.id \in Ids(reviews')
              /\ some(reviews, d) => reviews' = reviews
              /\ ~some(reviews, d) => Occurrences(reviews', d.id) = 1
              /\ reviews = <<>> => reviews' = <<d>>]_vars

\* C3 witness: the submit response and the realtime echo of one insert have both
\* been merged into the empty collection, which now has length 1.
C3_Witness ==
    /\ Len(reviews) = 1
    /\ mergeLog = {<<"submit", reviews[1].id, FALSE>>,
                   <<"realtime", reviews[1].id, FALSE>>}
    /\ Len(all) = 0

\* the load takes its error exit in this step
LoadFails == loadPc = "awaiting" /\ loadPc' = "failed"

\* C4: when a page fetch returns an error or throws, the load stores the
\* message in the error state, clears the loading flag, requests no further
\* page, and stays failed without a retry.
C4_FailureStopsLoad ==
    [][/\ (LoadResolve /\ pageResp.kind \in {"error", "throw"} /\ ~cancelled)
              => LoadFails
       /\ LoadFails =>
              /\ error' = pageResp.message
              /\ error' # NoError
              /\ ~isLoadingReviews'
              /\ requests' = requests
       /\ loadPc = "failed" =>
              /\ loadPc' = "failed"
              /\ requests' = requests
              /\ ~isLoadingReviews']_vars

\* C4 witness: the second page request threw; the message is stored and the
\* loading flag is false.
C4_Witness ==
    /\ loadPc = "failed"
    /\ Len(requests) = 2
    /\ error = "network down"
    /\ ~isLoadingReviews

\* C5 as stated: when a page after the first fails, the records of the pages
\* fetched before it are in the reviews collection.
C5_PartialVisible == loadPc = "failed" => Ids(all) \subseteq Ids(reviews)

\* the k-th request asks for [(k-1)*P, (k-1)*P + P - 1]
RangesConsecutive ==
    \A k \in 1..Len(requests) :
        requests[k] = <<(k - 1) * pageSize, (k - 1) * pageSize + pageSize - 1>>

\* ceil(N/P) requests when P does not divide N, N/P + 1 when it does
ExpectedRequests(n) ==
    IF n % pageSize = 0 THEN n \div pageSize + 1
    ELSE (n + pageSize - 1) \div pageSize

\* the load completes in this step
LoadCompletes == loadPc = "awaiting" /\ loadPc' = "done"

\* C6: the requested ranges are [k*P, k*P+P-1] for k = 0, 1, ...; on a table
\* of fixed size N the load has issued ceil(N/P) requests when it completes,
\* N/P + 1 when P divides N.
C6_RequestCount ==
    [][/\ RangesConsecutive'
       /\ (LoadCompletes /\ ~remoteChanged') =>
              Len(requests') = ExpectedRequests(Len(remote'))]_vars

\* C6 witness: a load over a non-empty table whose size is a multiple of the
\* page size has completed after N/P + 1 requests.
C6_Witness ==
    /\ loadPc = "done"
    /\ ~remoteChanged
    /\ Len(all) > 0
    /\ Len(all) % pageSize = 0
    /\ Len(requests) = Len(all) \div pageSize + 1

NewestFirst(s) == \A i, j \in 1..Len(s) : i < j => s[i].created_at > s[j].created_at

\* C7: when every page fetch succeeds and the table does not change during
\* the load, the collection the load produces is the whole table, newest
\* first, each row once.
C7_LoadsWholeTable ==
    [][(LoadCompletes /\ ~remoteChanged') =>
           /\ reviews' = remote'
           /\ NewestFirst(reviews')
           /\ UniqueIds(reviews')]_vars

\* C7 witness: a table of more than one page has been loaded completely.
C7_Witness ==
    /\ loadPc = "done"
    /\ ~remoteChanged
    /\ mergeLog = {}
    /\ reviews = remote
    /\ Len(reviews) > pageSize
    /\ Len(requests) = 2

\* C8: the cleanup sets the flag and removes the channel; afterwards the load
\* requests no page, its continuation writes nothing to reviews, error and
\* loading, the channel stays removed and the realtime handler does not run.
C8_TeardownStopsLoad ==
    [][/\ (Unmount /\ configured) => (cancelled' /\ channel' = "removed")
       /\ cancelled =>
              /\ requests' = requests
              /\ channel' = "removed"
              /\ ~RealtimeInsert
              /\ LoadResolve => UNCHANGED <<reviews, error, isLoadingReviews>>]_vars

\* C8 witness: the view was torn down while the first page was in flight; the
\* answer has arrived, nothing was written and no second page was requested.
C8_Witness ==
    /\ cancelled
    /\ loadPc = "cancelled"
    /\ Len(remote) >= pageSize
    /\ Len(requests) = 1
    /\ reviews = <<>>
    /\ isLoadingReviews
    /\ error = NoError
    /\ channel = "removed"

\* C9 as stated: after the view is torn down no operation writes to its state
\* container, the continuation of a submit included.
C9_NoWriteAfterTeardown ==
    [][viewState = "unmounted" =>
           UNCHANGED <<reviews, isLoadingReviews, error, form, step, submitted,
                       isSubmitting>>]_vars

\* the rating clamped to [1,5]
Clamped(r) == IF r < 1 THEN 1 ELSE IF r > 5 THEN 5 ELSE r

CountClamped(s, k) == Cardinality({i \in 1..Len(s) : Clamped(s[i].rating) = k})

SumClamped(s) ==
    CountClamped(s, 1) + 2 * CountClamped(s, 2) + 3 * CountClamped(s, 3)
        + 4 * CountClamped(s, 4) + 5 * CountClamped(s, 5)

\* C10: the average is 0 for the empty collection and otherwise the tenth
\* nearest to (sum of the ratings clamped to [1,5]) / |C|.
C10_AverageRounded ==
    LET n == Len(reviews)
        a == distribution.avg
    IN  IF n = 0 THEN a = 0
        ELSE /\ 2 * (10 * SumClamped(reviews) - a * n) <= n
             /\ 2 * (a * n - 10 * SumClamped(reviews)) <= n

\* C10 witness: ratings 7, 0, 7 count as 5, 1, 5 and average 11/3 = 3.7.
C10_Witness ==
    /\ Len(reviews) = 3
    /\ reviews[1].rating = 7
    /\ reviews[2].rating = 0
    /\ reviews[3].rating = 7
    /\ distribution.avg = 37

\* C11: the histogram has exactly the buckets 1..5, bucket k counts the reviews
\* whose rating clamped to [1,5] is k, the buckets sum to |C|, which is the
\* total, and all buckets are 0 for the empty collection.
C11_Histogram ==
    LET c == distribution.counts
    IN  /\ DOMAIN c = 1..5
        /\ \A k \in 1..5 : c[k] = CountClamped(reviews, k)
        /\ c[1] + c[2] + c[3] + c[4] + c[5] = Len(reviews)
        /\ distribution.total = Len(reviews)
        /\ reviews = <<>> => \A k \in 1..5 : c[k] = 0

\* C11 witness: ratings 7, 0, 3, 7 fill the buckets 5, 1, 3, 5.
C11_Witness ==
    /\ Len(reviews) = 4
    /\ reviews[1].rating = 7
    /\ reviews[2].rating = 0
    /\ distribution.counts = <<1, 0, 1, 0, 2>>
    /\ distribution.total = 4

\* the positions of the reviews that match the role filter and the star filter
Matches ==
    {i \in 1..Len(reviews) :
        /\ roleFilter = "all" \/ reviews[i].role = roleFilter
        /\ starFilter = 0 \/ Clamped(reviews[i].rating) = starFilter}

\* the position of the j-th matching review
NthMatch(j) == CHOOSE i \in Matches : Cardinality({k \in Matches : k <= i}) = j

\* C12: a change of the role filter or of the star filter to a different value
\* sets the reveal count to 12, whatever it was.
C12_FilterResetsReveal ==
    [][(roleFilter' # roleFilter \/ starFilter' # starFilter) =>
           visibleCount' = 12]_vars

\* C12 witness: the reveal count had grown past the whole collection and a
\* star filter has put it back to 12.
C12_Witness ==
    /\ visibleCount = 12
    /\ starFilter = 5
    /\ Len(reviews) > 12
    /\ maxVisible > Len(reviews)

\* C13: the displayed list is the first min(reveal count, M) matching reviews
\* in the order of the collection, M being the number of matching reviews.
C13_DisplayedPrefix ==
    LET n == Min(visibleCount, Cardinality(Matches))
    IN  /\ Len(displayed) = n
        /\ \A j \in 1..n : displayed[j] = reviews[NthMatch(j)]

\* C13 witness: more students than the reveal count match; 12 are shown.
C13_Witness ==
    /\ roleFilter = "student"
    /\ visibleCount = 12
    /\ Cardinality(Matches) > 12
    /\ Cardinality(Matches) < Len(reviews)
    /\ Len(displayed) = 12

\* C14: a step that changes the role filter, the star filter or the reveal
\* count leaves the reviews collection and the statistics as they are.
C14_FilterFrame ==
    [][(roleFilter' # roleFilter \/ starFilter' # starFilter
            \/ visibleCount' # visibleCount) =>
           UNCHANGED <<reviews, distribution>>]_vars

\* C14 witness: after load-more and a change of the role filter the collection
\* is still the loaded table.
C14_Witness ==
    /\ loadPc = "done"
    /\ maxVisible > 12
    /\ roleFilter # "all"
    /\ Len(reviews) > 12
    /\ reviews = remote
    /\ distribution = Distribution(remote)

\* the step that issues an insert request, and the payload it issues
Issues == inserts' # inserts
Issued == inserts'[Len(inserts')]

\* the step that ends a submit whose insert answered with kind k
Resolves(k) == insertReq.kind = k /\ insertReq' = NoInsert

\* every required field of the form is present and long enough
Required(v, f) ==
    /\ Len(trim(f.name)) >= 2
    /\ v = "QuizFlow" => /\ f.rating >= 1
                         /\ Len(trim(f.experience)) >= 3
                         /\ f.reliabilityRating >= 1
                         /\ f.wouldRecommend # Null
    /\ v = "BrainFuel" => Len(trim(f.feedback)) >= 3

\* C15: no insert request is issued for a payload whose trimmed name has fewer
\* than 2 characters, nor while a required field of the form is missing or too
\* short, whatever edits, navigation, resets and submits came before.
C15_NoInsertOfInvalidForm ==
    [][Issues => /\ Required(variant, form)
                 /\ Len(Issued.name) >= 2]_vars

\* after a rejected submit the user went back to the first step and shortened
\* the name: the way forward to the submit control is closed
C15_Witness ==
    /\ variant = "QuizFlow"
    /\ Len(inserts) = 1
    /\ Len(inserts[1].name) = 2
    /\ insertReq = NoInsert
    /\ ~submitted
    /\ step = 0
    /\ Len(trim(form.name)) = 1
    /\ ~validStep(form, step)

\* C16: when the insert of a submit returns an error, the collection, the form
\* fields, the step and the submitted flag are left as they were, the
\* submitting flag is false again, and the same form can be submitted again.
C16_FailureKeepsState ==
    [][Resolves("error") =>
          /\ UNCHANGED <<reviews, form, step, submitted>>
          /\ isSubmitting' = FALSE
          /\ insertReq.payload = {payloadOf(variant, form')}
          /\ viewState = "mounted" => /\ submitOffered'
                                      /\ configured
                                      /\ ~blocked(variant, form')]_vars

\* the retry: a second request with the payload of the rejected first one
C16_Witness ==
    /\ Len(inserts) = 2
    /\ inserts[1] = inserts[2]
    /\ remote = <<>>
    /\ reviews = <<>>
    /\ insertReq.kind = "sent"
    /\ isSubmitting

\* C17: when a submit succeeds and the returned record's identifier is not in
\* the collection, the collection becomes that record followed by the previous
\* collection, the total grows by 1, the bucket of the record's clamped rating
\* grows by 1 and the other buckets stay; from the empty collection a rating-4
\* submission gives [r1], average 4.0 and histogram {4:1, others 0}.
C17_SubmitPrepends ==
    [][Resolves("data") =>
          LET ins == CHOOSE x \in insertReq.data : TRUE
              k == Clamped(ins.rating)
          IN  (\A i \in 1..Len(reviews) : reviews[i].id # ins.id) =>
                 /\ reviews' = <<ins>> \o reviews
                 /\ distribution'.total = distribution.total + 1
                 /\ distribution'.counts[k] = distribution.counts[k] + 1
                 /\ \A j \in (1..5) \ {k} :
                        distribution'.counts[j] = distribution.counts[j]
                 /\ (reviews = <<>> /\ ins.rating = 4) =>
                        /\ reviews' = <<ins>>
                        /\ distribution'.avg = 40
                        /\ distribution'.counts = <<0, 0, 0, 1, 0>>]_vars

\* a submitted record in front of a record that was there before
C17_Witness ==
    /\ Len(reviews) = 2
    /\ \E e \in mergeLog : e[1] = "submit" /\ e[2] = reviews[1].id
    /\ \A e \in mergeLog : e[2] # reviews[2].id
    /\ distribution.total = 2
    /\ distribution.counts[Clamped(reviews[1].rating)] >= 1

\* the optional text fields: <<field of the form, column of the payload>>
OptionalFields ==
    {<<"securityIssues", "security_issues">>, <<"bugsGlitches", "bugs_glitches">>,
     <<"databaseIssues", "database_issues">>, <<"featureRequests", "feature_requests">>,
     <<"uiUxFeedback", "ui_ux_feedback">>, <<"otherFeedback", "other_feedback">>}

\* C18: each accepted submit issues exactly one insert request; its rating
\* (and in QuizFlow its reliability rating) lies in 1..5 and every optional
\* text field that is empty after trimming is sent as null, never as "".
C18_OneWellFormedInsert ==
    [][(Issues \/ (~isSubmitting /\ isSubmitting')) =>
          /\ inserts' = Append(inserts, Issued)
          /\ insertReq' = [kind |-> "sent", payload |-> {Issued}, data |-> Null,
                           message |-> NoError]
          /\ Issued.rating \in 1..5
          /\ Issued.name = trim(form.name)
          /\ variant = "QuizFlow" =>
                /\ Issued.reliability_rating \in 1..5
                /\ \A o \in OptionalFields :
                      /\ trim(form[o[1]]) = <<>> => Issued[o[2]] = Null
                      /\ trim(form[o[1]]) # <<>> => Issued[o[2]] = {trim(form[o[1]])}
                      /\ <<>> \notin Issued[o[2]]]_vars

\* a request whose blank optional field went out as null and whose filled
\* optional field went out trimmed
C18_Witness ==
    /\ variant = "QuizFlow"
    /\ Len(inserts) = 1
    /\ insertReq.kind = "sent"
    /\ form.bugsGlitches = <<" ">>
    /\ inserts[1].bugs_glitches = Null
    /\ form.featureRequests = <<"x", " ">>
    /\ inserts[1].feature_requests = {<<"x">>}

\* C19: the confetti effect is triggered exactly when a submit succeeds with a
\* rating at or above 5: never on a failed or blocked submit and never for a
\* successful submit with rating 1..4, in both variants.
C19_ConfettiOnlyForFive ==
    [][LET five == /\ insertReq.kind = "data"
                   /\ (CHOOSE x \in insertReq.payload : TRUE).rating >= 5
       IN  /\ confetti' # confetti => (Resolves("data") /\ five)
           /\ (Resolves("data") /\ five /\ refsAttached) =>
                  confetti' = confetti + 1]_vars

\* C20: at most one insert request of a view is outstanding: while a submit is
\* in flight the submitting flag is true, the submit control and the form
\* inputs are inert, and no other insert is issued before it resolves.
C20_OneInsertInFlight ==
    [][/\ insertReq.kind # "none" =>
             /\ isSubmitting
             /\ ~submitOffered
             /\ \A key \in DOMAIN form : ~editable(key)
       /\ (isSubmitting /\ isSubmitting') => UNCHANGED <<form, step, submitted>>
       /\ Issues => (insertReq.kind = "none" /\ ~isSubmitting)]_vars

\* the second request of a view in flight, after the first one resolved
C20_Witness ==
    /\ viewState = "mounted"
    /\ isSubmitting
    /\ insertReq.kind = "sent"
    /\ Len(inserts) = 2

\* C21: without credentials the view performs no network operation: no page
\* query, no realtime subscription and no insert, whatever is submitted; the
\* collection stays empty and the loading flag stays false.
C21_NoNetworkWithoutCredentials ==
    ~configured =>
        /\ requests = <<>>
        /\ pageResp = NoResp
        /\ loadPc = "idle"
        /\ channel = "none"
        /\ rtQueue = <<>>
        /\ inserts = <<>>
        /\ insertReq = NoInsert
        /\ ~isSubmitting
        /\ reviews = <<>>
        /\ ~isLoadingReviews

\* the unconfigured view is mounted over a table that other clients have
\* filled; the form is complete and the submit control is offered
C21_Witness ==
    /\ ~configured
    /\ viewState = "mounted"
    /\ Len(remote) = MaxRemote
    /\ \E ra \in FilledRatings : form = FilledForm(variant, ra)
    /\ submitOffered
    /\ reviews = <<>>

\* the identifiers the realtime handler has merged since the load completed
MergedAfterLoad == {m[2] : m \in {e \in mergeLog : e[1] = "realtime" /\ ~e[3]}}

\* the events received since the load completed that were not in the
\* collection, latest first: the table is kept newest first and the channel
\* delivers the events in the order of the inserts
FreshEvents ==
    LET fresh(r) == r.id \in MergedAfterLoad /\ r.id \notin Ids(all)
    IN  SelectSeq(remote, fresh)

\* C22: realtime INSERT events are applied one by one in the order received:
\* after the events e1, ..., en, with distinct identifiers that were not in
\* the collection, the collection is [en, ..., e1] followed by the previous
\* collection (here the collection the load produced).
C22_EventsInOrderReceived ==
    (loadPc = "done" /\ inserts = <<>>) => reviews = FreshEvents \o all

\* three events were applied in front of a loaded row
C22_Witness ==
    /\ loadPc = "done"
    /\ inserts = <<>>
    /\ Len(all) = 1
    /\ Len(FreshEvents) = 3
    /\ Len(reviews) = 4
    /\ reviews[1].id = 4
    /\ reviews[3].id = 2
    /\ reviews[4].id = 1
    /\ rtQueue = <<>>

\* ordered by creation timestamp, descending
Descending(s) == \A i, j \in 1..Len(s) : i < j => s[i].created_at >= s[j].created_at

\* record d is not older than any record of s
NotOlder(d, s) == \A i \in 1..Len(s) : d.created_at >= s[i].created_at

\* the step merges no record that is older than a record of the collection
MergesNotOlder == \A d \in Mergeable : MergeStep(d) => NotOlder(d, reviews)

\* C23 as stated: when every record merged by a realtime event or a submit
\* response is not older than the records of the collection, the collection,
\* empty at first, is ordered newest first in every reachable state: no step
\* takes it from ordered to unordered.
C23_NewestFirstAlways ==
    [][(Descending(reviews) /\ MergesNotOlder) => Descending(reviews')]_vars

\* C23 amended: when every record merged by a realtime event or a submit
\* response is not older than the records of the collection, and no row was
\* inserted while a load that completes was fetching its pages, the
\* collection, empty at first, stays ordered newest first.
C23_NewestFirstUnlessGrown ==
    [][(/\ Descending(reviews)
        /\ MergesNotOlder
        /\ LoadCompletes => ~remoteChanged') => Descending(reviews')]_vars

\* a realtime event and then a submit response were merged in front of the
\* loaded rows
C23_Witness ==
    /\ loadPc = "done"
    /\ ~remoteChanged
    /\ Len(all) >= 1
    /\ Len(reviews) = Len(all) + 2
    /\ <<"submit", reviews[1].id, FALSE>> \in mergeLog
    /\ <<"realtime", reviews[2].id, FALSE>> \in mergeLog
    /\ <<"realtime", reviews[1].id, FALSE>> \notin mergeLog
    /\ Descending(reviews)
    /\ reviews[1].created_at > reviews[2].created_at

\* the reveal count is 12 + 12 * k and the figure shown is min(count, M) of M
RevealInv ==
    /\ visibleCount >= 12
    /\ (visibleCount - 12) % 12 = 0
    /\ showing = <<Min(visibleCount, Cardinality(Matches)), Cardinality(Matches)>>
    /\ loadMoreOffered <=> Cardinality(Matches) > visibleCount

\* a step that changes the reveal count is a load-more, offered, adding 12,
\* or the reset to 12 that follows a change of a filter
RevealStep ==
    visibleCount' # visibleCount =>
        \/ /\ visibleCount' = visibleCount + 12
           /\ Cardinality(Matches) > visibleCount
           /\ UNCHANGED <<roleFilter, starFilter, reviews>>
        \/ /\ visibleCount' = 12
           /\ roleFilter' # roleFilter \/ starFilter' # starFilter

\* C24: the reveal count starts at 12 and is always 12 + 12*k; load-more adds
\* exactly 12 and is offered only while the matching reviews outnumber the
\* reveal count; only load-more and the filter reset change it; the figure
\* 'showing N of M' has N = min(reveal count, M).
C24_RevealCount ==
    /\ visibleCount = 12
    /\ []RevealInv
    /\ [][RevealStep]_vars

\* load-more was used twice and is no longer offered: showing 30 of 30
C24_Witness ==
    /\ visibleCount = 36
    /\ roleFilter = "all"
    /\ starFilter = 0
    /\ showing = <<30, 30>>
    /\ ~loadMoreOffered

\* an insert request of the view is outstanding: issued and not yet resolved
Outstanding == insertReq.kind # "none"

\* C25: the submitting flag is true exactly while an insert request is
\* outstanding: it is set in the step that issues the request and cleared in
\* the step that resolves it, with data or with an error, after which the
\* form controls are enabled again.
C25_FlagWhileOutstanding ==
    /\ [](isSubmitting <=> Outstanding)
    /\ [][/\ Issues => (~isSubmitting /\ isSubmitting' /\ insertReq'.kind = "sent")
          /\ (isSubmitting /\ ~isSubmitting') =>
                 (Resolves("data") \/ Resolves("error"))
          /\ (Resolves("data") \/ Resolves("error")) =>
                 /\ ~isSubmitting'
                 /\ viewState = "mounted" =>
                        \A key \in DOMAIN form :
                            editable(key)' <=>
                                (variant = "QuizFlow" =>
                                     (~submitted' /\ fieldStep(key) = step'))]_vars

\* a request was rejected and a second one succeeded: the flag is down, the
\* BrainFuel inputs are enabled
C25_Witness ==
    /\ variant = "BrainFuel"
    /\ viewState = "mounted"
    /\ Len(inserts) = 2
    /\ Len(reviews) = 1
    /\ ~isSubmitting
    /\ insertReq = NoInsert
    /\ \A key \in DOMAIN form : editable(key)

\* C26: the paged load writes the collection at most once per activation, only
\* when every page was fetched successfully, and then with all pages at once;
\* while it fetches, and when it fails or is cancelled, the load writes
\* nothing to the collection, and once it has ended it does not run again.
C26_LoadWritesOnce ==
    [][/\ LoadResolve =>
              IF LoadCompletes
              THEN /\ ~cancelled
                   /\ pageResp.kind = "data"
                   /\ lastPage(pageResp.data)
                   /\ all' = all \o pageResp.data
                   /\ reviews' = all'
              ELSE UNCHANGED reviews
       /\ loadPc \in {"done", "failed", "cancelled"} =>
              /\ loadPc' = loadPc
              /\ ~LoadResolve]_vars

\* a full first page was fetched, the second request failed: the page is in
\* the local array and the collection was not written
C26_Witness ==
    /\ loadPc = "failed"
    /\ Len(all) = pageSize
    /\ Len(requests) = 2
    /\ reviews = <<>>
    /\ mergeLog = {}

\* the required fields of the steps before the current one are valid
StepsValidated ==
    /\ step >= 1 => (Len(trim(form.name)) >= 2 /\ form.rating >= 1)
    /\ step >= 2 => /\ Len(trim(form.experience)) >= 3
                    /\ form.reliabilityRating >= 1
                    /\ form.wouldRecommend # Null

\* C27: in QuizFlow, step >= 1 implies trimmed name length >= 2 and
\* rating >= 1, and step >= 2 implies trimmed experience length >= 3,
\* reliabilityRating >= 1 and wouldRecommend not null; so every insert request
\* carries validated required fields, the ratings as entered and the
\* recommendation the user chose, never the default of 'wouldRecommend ?? true'.
C27_StepsValidated ==
    /\ [](variant = "QuizFlow" => StepsValidated)
    /\ [][(Issues /\ variant = "QuizFlow") =>
              /\ step = StepsLength - 1
              /\ form.wouldRecommend # Null
              /\ Issued.would_recommend \in form.wouldRecommend
              /\ Issued.rating = form.rating
              /\ Issued.reliability_rating = form.reliabilityRating
              /\ Len(Issued.name) >= 2
              /\ Len(Issued.experience) >= 3]_vars

\* a request went out from step 3 with the recommendation "no" of the form
C27_Witness ==
    /\ variant = "QuizFlow"
    /\ step = StepsLength - 1
    /\ insertReq.kind = "sent"
    /\ Len(inserts) = 1
    /\ form.wouldRecommend = Some(FALSE)
    /\ inserts[1].would_recommend = FALSE
    /\ form.name = <<" ", "A", "s">>
    /\ inserts[1].name = <<"A", "s">>

\* C28: in QuizFlow the step index stays within 0..3 under any sequence of
\* nextStep, prevStep, skipStep and resetForm; nextStep leaves the step
\* unchanged when the current step fails validation; skipStep is offered only
\* at step 2.
C28_StepInRange ==
    /\ [](/\ step \in 0..3
          /\ skipOffered => step = 2
          /\ variant = "BrainFuel" => step = 0)
    /\ [][/\ (nextStep /\ ~validStep(form, step)) => step' = step
          /\ step' # step =>
                \/ step' = step + 1 /\ step < 3 /\ validStep(form, step)
                \/ step' = step - 1 /\ step > 0
                \/ step' = 0 /\ submitted /\ ~submitted']_vars

\* after a rejected submit the user went back to step 1 and shortened the
\* experience: nextStep does not leave step 1
C28_Witness ==
    /\ variant = "QuizFlow"
    /\ viewState = "mounted"
    /\ Len(inserts) = 1
    /\ insertReq = NoInsert
    /\ ~submitted
    /\ step = 1
    /\ ~validStep(form, step)
    /\ ~skipOffered

\* a submit action in this state issues an insert request
WouldIssue(f) == submitOffered /\ hasClient /\ ~blocked(variant, f)

\* C30: right after a successful submit a repeated submit action issues no
\* second insert: BrainFuel has reset the form to its defaults (name and
\* feedback empty, role student, rating 5), which validation blocks; QuizFlow
\* has set the submitted flag, which hides the form until resetForm, and
\* resetForm returns to step 0 with the initial form, which does not pass
\* validation.
C30_NoRepeatAfterSuccess ==
    [][/\ Resolves("data") =>
              /\ ~WouldIssue(form)'
              /\ variant = "BrainFuel" =>
                     /\ form' = [name |-> <<>>, role |-> "student", rating |-> 5,
                                 feedback |-> <<>>]
                     /\ blocked(variant, form')
              /\ variant = "QuizFlow" => submitted'
       /\ submitted =>
              /\ variant = "QuizFlow"
              /\ ~submitOffered
              /\ \A key \in DOMAIN form : ~editable(key)
              /\ ~Issues
              /\ ~submitted' => /\ resetForm
                                /\ step' = 0
                                /\ form'.name = <<>>
                                /\ form'.rating = 0
                                /\ ~validStep(form', step')
                                /\ ~WouldIssue(form)']_vars

\* BrainFuel right after a successful submit: the submit control is enabled,
\* the form holds the defaults and the length checks block it
C30_Witness ==
    /\ variant = "BrainFuel"
    /\ viewState = "mounted"
    /\ Len(inserts) = 1
    /\ Len(reviews) = 1
    /\ insertReq = NoInsert
    /\ submitOffered
    /\ form = initialForm(variant)
    /\ blocked(variant, form)

\* C29: if the view is configured and never torn down and every page request
\* resolves, the loading flag, set when the load starts, eventually is false
\* and stays false; if the view is torn down while the flag is set, the load
\* never clears it.
C29_LoadingEnds ==
    /\ (configured /\ [](viewState # "unmounted")) =>
           (<>isLoadingReviews /\ <>[](~isLoadingReviews))
    /\ []((cancelled /\ isLoadingReviews) => [](isLoadingReviews))
    /\ [][(Mount /\ configured) => isLoadingReviews']_vars

\* the load of a table that grew while it was fetched has ended after two
\* requests and the flag is down
C29_Witness ==
    /\ viewState = "mounted"
    /\ loadPc = "done"
    /\ remoteChanged
    /\ Len(requests) = 2
    /\ ~isLoadingReviews

====
